---------------------------- MODULE Spec2Model ----------------------------
(***************************************************************************)
(* A model of pytahoe (src/pytahoe/__init__.py): a client of the Tahoe-LAFS *)
(* web API (WAPI).  Filenames and URLs are sequences of one-character       *)
(* strings, capabilities are records [o, w] (the grid object and whether    *)
(* the cap is its write cap), JSON envelopes are pairs <<tag, details>>.    *)
(***************************************************************************)
EXTENDS Naturals, Integers, Sequences, FiniteSets, TLC

VARIABLES
    filename,     \* SpecSanitize: the name handed to _sanitize_filename
    sanitized,    \* SpecSanitize: its result, [set, val]
    resanitized,  \* SpecSanitize: the result of sanitizing the result again
    wapi,         \* SpecProbe: what GET /statistics?t=json on the WAPI gives
    clock,        \* SpecProbe: time.time()
    fs,           \* SpecProbe: the outcome of the last Filesystem(url)
    body,         \* SpecRead: the bytes the grid stores for the File's uri
    request,      \* SpecRead: File.request, the cached streaming response
    readcall,     \* SpecRead: the last read call and what it returned
    grid,         \* the grid: directory listings, unrecoverable objects, transport
    target,       \* a Directory object the caller holds
    source,       \* a File or Directory object the caller holds
    call,         \* the last call made on the client and its arguments
    result,       \* what that call returned or raised
    sent          \* the HTTP requests that call issued, in order

sanitizeVars == <<filename, sanitized, resanitized>>
probeVars    == <<wapi, clock, fs>>
readVars     == <<body, request, readcall>>
clientVars   == <<grid, target, source, call, result, sent>>
vars == <<filename, sanitized, resanitized, wapi, clock, fs, body, request,
          readcall, grid, target, source, call, result, sent>>

(***************************************************************************)
(* Bounds of the model.                                                     *)
(***************************************************************************)
MaxNameLen == 3
MaxBody == 3
MaxUptime == 2
MaxClock == 3
RecursionLimit == 4

(***************************************************************************)
(* Filesystem._sanitize_filename                                            *)
(***************************************************************************)
\* The character class of the pattern, without its negation:
\* a-zA-Z0-9 $_.+!*'(),-
SafeChars ==
    {"a","b","c","d","e","f","g","h","i","j","k","l","m",
     "n","o","p","q","r","s","t","u","v","w","x","y","z",
     "A","B","C","D","E","F","G","H","I","J","K","L","M",
     "N","O","P","Q","R","S","T","U","V","W","X","Y","Z",
     "0","1","2","3","4","5","6","7","8","9",
     " ","$","_",".","+","!","*","'","(",")",",","-"}

\* [^...]: one character outside the class
Unsafe(c) == c \notin SafeChars

\* The end of the greedy match of [^...]+ that starts at position i of s
RECURSIVE MatchEnd(_, _)
MatchEnd(s, i) ==
    IF i < Len(s) /\ Unsafe(s[i + 1]) THEN MatchEnd(s, i + 1) ELSE i

\* A buggy substitution: only the first match is replaced (count=1)
RECURSIVE SubFirstFrom(_, _)
SubFirstFrom(s, i) ==
    IF i > Len(s) THEN << >>
    ELSE IF Unsafe(s[i]) THEN SubSeq(s, MatchEnd(s, i) + 1, Len(s))
    ELSE <<s[i]>> \o SubFirstFrom(s, i + 1)

\* re.sub(pattern, "", s) from position i on: every leftmost greedy match is
\* replaced by the empty string, the characters between matches are kept
RECURSIVE SubFrom(_, _)
SubFrom(s, i) ==
    IF i > Len(s) THEN << >>
    ELSE IF Unsafe(s[i]) THEN SubFrom(s, MatchEnd(s, i) + 1)
    ELSE <<s[i]>> \o SubFrom(s, i + 1)

SanitizeFirstOnly(name) == SubFirstFrom(name, 1)

_sanitize_filename(name) == SubFrom(name, 1)

\* The characters filenames are drawn from: safe ones of each range of the
\* class and unsafe ones
Alphabet == {"a", "Z", "7", "-", ".", "/", ";"}

RECURSIVE SeqsUpTo(_, _)
SeqsUpTo(S, n) ==
    IF n = 0 THEN {<< >>}
    ELSE LET shorter == SeqsUpTo(S, n - 1)
         IN  shorter \cup {Append(s, c) : s \in {t \in shorter : Len(t) = n - 1}, c \in S}

Unset == [set |-> FALSE, val |-> << >>]
Set(v) == [set |-> TRUE, val |-> v]

SanitizeInit ==
    /\ filename \in SeqsUpTo(Alphabet, MaxNameLen)
    /\ sanitized = Unset
    /\ resanitized = Unset

\* name = fs._sanitize_filename(name)
Sanitize ==
    /\ ~sanitized.set
    /\ sanitized' = Set(_sanitize_filename(filename))
    /\ UNCHANGED <<filename, resanitized>>

\* fs._sanitize_filename(fs._sanitize_filename(name))
SanitizeAgain ==
    /\ sanitized.set /\ ~resanitized.set
    /\ resanitized' = Set(_sanitize_filename(sanitized.val))
    /\ UNCHANGED <<filename, sanitized>>


(***************************************************************************)
(* Filesystem.__init__: the statistics probe                                *)
(***************************************************************************)
\* The URL the WAPI listens on; every other URL is unreachable
WapiUrl == <<"h">>

Urls == {<< >>, <<" ">>, <<"h">>, <<"h", "/">>, <<"/">>, <<"x">>}

\* str.strip(): leading and trailing whitespace removed
RECURSIVE Strip(_)
Strip(s) ==
    IF s = << >> THEN s
    ELSE IF Head(s) = " " THEN Strip(Tail(s))
    ELSE IF s[Len(s)] = " " THEN Strip(SubSeq(s, 1, Len(s) - 1))
    ELSE s

\* What the WAPI may answer to GET /statistics?t=json: no answer (transport
\* failure), a body that is not JSON, or a JSON document
WapiStates ==
    {[kind |-> "down", doc |-> "none", uptime |-> 0],
     [kind |-> "notjson", doc |-> "none", uptime |-> 0],
     [kind |-> "json", doc |-> "object_without_stats", uptime |-> 0],
     [kind |-> "json", doc |-> "stats_without_uptime", uptime |-> 0],
     [kind |-> "json", doc |-> "array", uptime |-> 0]}
    \cup {[kind |-> "json", doc |-> "stats", uptime |-> u] : u \in 0..MaxUptime}

\* requests.get("%s/statistics?t=json" % url): the answer of the WAPI when url
\* is its address, a transport failure otherwise
StatisticsGet(url) ==
    IF url = WapiUrl THEN wapi ELSE [kind |-> "down", doc |-> "none", uptime |-> 0]

Raised(exc, url, saw) ==
    [made |-> FALSE, exc |-> exc, url |-> << >>, start_date |-> 0, asked |-> url,
     saw |-> saw]

\* Filesystem(url): the object made, or the exception raised
FilesystemInit(url) ==
    IF Strip(url) = << >> THEN Raised("FilesystemException", url, "norequest")
    ELSE LET u == IF url[Len(url)] = "/" THEN SubSeq(url, 1, Len(url) - 1) ELSE url
             r == StatisticsGet(u)
         IN  IF r.kind = "down" THEN Raised("FilesystemException", url, "down")
             ELSE IF r.kind = "notjson" THEN Raised("FilesystemException", url, "notjson")
             \* line 64, outside the try block
             ELSE IF r.doc \in {"object_without_stats", "stats_without_uptime"}
                  THEN Raised("KeyError", url, r.doc)
             ELSE IF r.doc = "array" THEN Raised("TypeError", url, r.doc)
             ELSE [made |-> TRUE, exc |-> "", url |-> u,
                   start_date |-> clock - r.uptime, asked |-> url, saw |-> r.doc]

NoFilesystem == [made |-> FALSE, exc |-> "", url |-> << >>, start_date |-> 0,
                 asked |-> << >>, saw |-> "nocall"]

ProbeInit ==
    /\ wapi \in WapiStates
    /\ clock = MaxUptime
    /\ fs = NoFilesystem

Construct ==
    /\ \E url \in Urls : fs' = FilesystemInit(url)
    /\ UNCHANGED <<wapi, clock>>

\* The node is restarted, stopped, or replaced by another server
WapiChange ==
    /\ wapi' \in WapiStates
    /\ UNCHANGED <<clock, fs>>

Tick ==
    /\ clock < MaxUptime + MaxClock
    /\ clock' = clock + 1
    /\ UNCHANGED <<wapi, fs>>

(***************************************************************************)
(* File.read                                                                *)
(***************************************************************************)
Bytes == {"x", "y"}

NoRequest == [open |-> FALSE, pos |-> 0, cached |-> FALSE, content |-> << >>]
NoRead == [made |-> FALSE, length |-> -1, got |-> << >>, exhausted |-> FALSE,
           remaining |-> << >>]

Min(a, b) == IF a < b THEN a ELSE b

\* self.request after "if self.request is None: self.request = requests.get(...,
\* prefetch=False)": the response is open and nothing of its body is read
Opened(req) ==
    IF req.open THEN req
    ELSE [open |-> TRUE, pos |-> 0, cached |-> FALSE, content |-> << >>]

\* What is left of the raw stream of the response
Remaining(req) == SubSeq(body, req.pos + 1, Len(body))

\* Response.content: the first access reads the raw stream to its end and keeps
\* the bytes on the response; every access returns the bytes kept
ContentOf(req) == IF req.cached THEN req.content ELSE Remaining(req)
AfterContent(req) ==
    IF req.cached THEN req
    ELSE [open |-> TRUE, pos |-> Len(body), cached |-> TRUE, content |-> Remaining(req)]

\* Response.raw.read(amt=length)
RawRead(req, length) == SubSeq(body, req.pos + 1, Min(req.pos + length, Len(body)))
AfterRawRead(req, length) == [req EXCEPT !.pos = Min(req.pos + length, Len(body))]

ReadInit ==
    /\ body \in SeqsUpTo(Bytes, MaxBody)
    /\ request = NoRequest
    /\ readcall = NoRead

\* File.read(length)
ReadLength ==
    \E length \in 0..(MaxBody + 1) :
        LET req == Opened(request)
        IN  /\ request' = AfterRawRead(req, length)
            /\ readcall' = [made |-> TRUE, length |-> length, got |-> RawRead(req, length),
                            exhausted |-> request.open /\ request.pos = Len(body),
                            remaining |-> Remaining(req)]
            /\ UNCHANGED body

\* File.read()
ReadAll ==
    LET req == Opened(request)
    IN  /\ request' = AfterContent(req)
        /\ readcall' = [made |-> TRUE, length |-> -1, got |-> ContentOf(req),
                        exhausted |-> request.open /\ request.pos = Len(body),
                        remaining |-> Remaining(req)]
        /\ UNCHANGED body

\* A new File object for the same uri: request = None
NewFile ==
    /\ request.open
    /\ request' = NoRequest
    /\ readcall' = NoRead
    /\ UNCHANGED body

(***************************************************************************)
(* The grid behind the WAPI, as far as the client reads it                  *)
(***************************************************************************)
Dirs == {"d1", "d2", "d3"}
Files == {"f1", "f2"}
\* f1 is a mutable file (it has a write cap), f2 an immutable one
MutableFiles == {"f1"}

RW(o) == [o |-> o, w |-> TRUE]
RO(o) == [o |-> o, w |-> FALSE]
\* A cap of a format the grid does not know
FutureCap == [o |-> "future", w |-> FALSE]
\* A cap slot that is not there ("rw_uri" not in details)
NoCap == [o |-> "", w |-> FALSE]

\* No envelope was passed (data=None)
NoData == << >>

\* One entry of "children" in a directory listing: the child's tag and caps and
\* no listing of its own. A directory read through its read cap shows no write
\* cap of a child.
ChildEnvelope(cap, parentWritable) ==
    LET tag == IF cap.o \in Dirs THEN "dirnode"
               ELSE IF cap.o \in Files THEN "filenode" ELSE "unknown"
        mutable == cap.o \in Dirs \cup MutableFiles
    IN  <<tag, [mutable |-> mutable,
                ro_uri |-> RO(cap.o),
                rw_uri |-> IF cap.w /\ parentWritable /\ mutable THEN RW(cap.o) ELSE NoCap,
                children |-> << >>]>>

\* The JSON of GET /uri/<cap>?t=json
Envelope(g, cap) ==
    IF cap.o \in Dirs
    THEN <<"dirnode", [mutable |-> TRUE,
                       ro_uri |-> RO(cap.o),
                       rw_uri |-> IF cap.w THEN RW(cap.o) ELSE NoCap,
                       children |-> [n \in DOMAIN g.kids[cap.o] |->
                                        ChildEnvelope(g.kids[cap.o][n], cap.w)]]>>
    ELSE ChildEnvelope(cap, TRUE)

\* requests.get("%s/uri/%s?t=json" % (url, quote(uri))).json(): it raises when
\* the WAPI is not reached or answers with an error page (the object's shares
\* are lost), and is the envelope otherwise
GetJson(g, uri) ==
    IF ~g.up \/ uri.o \in g.lost \/ uri.o \notin (g.made \cup {"future"})
    THEN [ok |-> FALSE, data |-> NoData]
    ELSE [ok |-> TRUE, data |-> Envelope(g, uri)]

\* "tag" in data, for data a JSON array [tag, details]
TagIn(tag, data) == data[1] = tag

(***************************************************************************)
(* Filesystem.Object / Directory / File and the node constructors           *)
(***************************************************************************)
\* The outcome of a call: the value returned or the exception raised, and the
\* number of envelope GETs the call issued
Return(val, gets) == [ok |-> TRUE, exc |-> "", msg |-> "", val |-> val, gets |-> gets]
Raise(exc, msg, gets) == [ok |-> FALSE, exc |-> exc, msg |-> msg, val |-> << >>, gets |-> gets]

\* File.__init__(filesystem, uri, data)
FileInit(g, uri, data) ==
    LET fetched == IF data = NoData THEN GetJson(g, uri) ELSE [ok |-> TRUE, data |-> data]
        gets == IF data = NoData THEN 1 ELSE 0
    IN  IF ~fetched.ok
        THEN Raise("FilesystemException", "could not reach the WAPI", gets)
        ELSE IF TagIn("filenode", fetched.data)
        THEN LET details == fetched.data[2]
             IN  Return([type |-> "File", uri |-> uri,
                         mutable |-> details.mutable,
                         readcap |-> details.ro_uri,
                         writable |-> details.rw_uri # NoCap,
                         writecap |-> details.rw_uri,
                         children |-> << >>], gets)
        ELSE IF TagIn("unknown", fetched.data)
        THEN Raise("ObjectException", "does not appear to exist", gets)
        ELSE Raise("ObjectException", "not a file", gets)

\* Filesystem.File(uri, data)
FsFile(g, uri, data) ==
    LET fetched == IF data = NoData THEN GetJson(g, uri) ELSE [ok |-> TRUE, data |-> data]
        gets == IF data = NoData THEN 1 ELSE 0
    IN  IF ~fetched.ok
        THEN Raise("FilesystemException", "could not reach the WAPI", gets)
        ELSE LET r == FileInit(g, uri, fetched.data)
             IN  [r EXCEPT !.gets = @ + gets]

RECURSIVE DirectoryInit(_, _, _, _), FsDirectory(_, _, _, _), FsObject(_, _, _, _),
          MakeChildren(_, _, _, _)

\* The strongest cap a listing entry shows for the child
ChildUri(entry) == IF entry[2].rw_uri # NoCap THEN entry[2].rw_uri ELSE entry[2].ro_uri

\* One turn of the loop of _get_data: r is what Object returned or raised for
\* child n, rest what the turns after it give
ChildMade(n, r, rest) ==
    IF ~r.ok
    THEN [ok |-> FALSE, exc |-> r.exc, msg |-> r.msg, kids |-> << >>, gets |-> r.gets]
    ELSE [rest EXCEPT !.kids = IF rest.ok THEN (n :> r.val) @@ @ ELSE @,
                      !.gets = @ + r.gets]

\* The loop of _get_data over the entries `names` of the listing `children`:
\* self.children[child_name] = self.filesystem.Object(child_uri, child_data).
\* The first child that raises ends the loop with its exception. kids is the
\* mapping built, gets the envelope GETs issued.
MakeChildren(g, children, names, depth) ==
    IF names = {} THEN [ok |-> TRUE, exc |-> "", msg |-> "", kids |-> << >>, gets |-> 0]
    ELSE LET n == CHOOSE x \in names : TRUE
         IN  ChildMade(n, FsObject(g, ChildUri(children[n]), children[n], depth + 1),
                       MakeChildren(g, children, names \ {n}, depth))

\* The Directory _get_data fills in from the details of its envelope and the
\* children made, or the exception of the child that raised
DirectoryMade(uri, details, made) ==
    IF ~made.ok
    THEN Raise(made.exc, made.msg, 1 + made.gets)
    ELSE Return([type |-> "Directory", uri |-> uri,
                 mutable |-> details.mutable,
                 readcap |-> details.ro_uri,
                 writable |-> details.rw_uri # NoCap,
                 writecap |-> details.rw_uri,
                 children |-> made.kids],
                1 + made.gets)

\* Directory.__init__(filesystem, uri, data) and the _get_data() it calls: data
\* is not read, the envelope is fetched. depth counts the _get_data calls on the
\* stack; the interpreter raises RuntimeError beyond its recursion limit.
DirectoryInit(g, uri, data, depth) ==
    IF depth > RecursionLimit
    THEN Raise("RuntimeError", "maximum recursion depth exceeded", 0)
    ELSE
    LET fetched == GetJson(g, uri)
    IN  IF ~fetched.ok
        THEN Raise("FilesystemException", "could not reach the WAPI", 1)
        ELSE IF TagIn("dirnode", fetched.data)
        THEN DirectoryMade(uri, fetched.data[2],
                           MakeChildren(g, fetched.data[2].children,
                                        DOMAIN fetched.data[2].children, depth))
        ELSE IF TagIn("unknown", fetched.data)
        THEN Raise("ObjectException", "does not appear to exist", 1)
        ELSE Raise("ObjectException", "not a directory", 1)

\* Filesystem.Directory(uri, data)
FsDirectory(g, uri, data, depth) ==
    LET fetched == IF data = NoData THEN GetJson(g, uri) ELSE [ok |-> TRUE, data |-> data]
        gets == IF data = NoData THEN 1 ELSE 0
    IN  IF ~fetched.ok
        THEN Raise("FilesystemException", "could not reach the WAPI", gets)
        ELSE LET r == DirectoryInit(g, uri, fetched.data, depth)
             IN  [r EXCEPT !.gets = @ + gets]

\* Filesystem.Object(uri, data)
FsObject(g, uri, data, depth) ==
    LET fetched == IF data = NoData THEN GetJson(g, uri) ELSE [ok |-> TRUE, data |-> data]
        gets == IF data = NoData THEN 1 ELSE 0
    IN  IF ~fetched.ok
        THEN Raise("FilesystemException", "could not reach the WAPI", gets)
        ELSE LET r == IF TagIn("filenode", fetched.data)
                      THEN FsFile(g, uri, fetched.data)
                      ELSE IF TagIn("dirnode", fetched.data)
                      THEN FsDirectory(g, uri, fetched.data, depth)
                      ELSE Raise("ObjectException", "does not appear to exist", 0)
             IN  [r EXCEPT !.gets = @ + gets]

\* Directory.refresh() on node self: the node afterwards is the node _get_data
\* fills in; when _get_data raises, the fields already assigned are kept
DirectoryRefresh(g, self) == DirectoryInit(g, self.uri, NoData, 1)

(***************************************************************************)
(* What the caller holds and the record of its last call                    *)
(***************************************************************************)
NoNode == [type |-> "None", uri |-> NoCap, mutable |-> FALSE, readcap |-> NoCap,
           writable |-> FALSE, writecap |-> NoCap, children |-> << >>]

NoCall == [op |-> "none", uri |-> NoCap, data |-> NoData, obj |-> NoNode,
           directory |-> NoNode, filename |-> Unset, writable |-> "absent",
           filedata |-> "none"]

NoResult == [ok |-> FALSE, exc |-> "", msg |-> "", val |-> << >>, gets |-> 0]

\* The names directory entries carry
Names == {<<"a">>, <<"b">>}

PartialFns(D, R) == UNION {[X -> R] : X \in SUBSET D}

\* The caps the caller knows to start with
TopCaps == {RW("d1"), RO("d1"), RW("d2"), RO("f1"), RW("f1"), FutureCap}

(***************************************************************************)
(* SpecResolve: resolving caps against a grid whose directories may share   *)
(* children, nest, and contain themselves                                   *)
(***************************************************************************)
LinkCaps == {RW("d1"), RW("d2"), RO("d2"), RO("f1")}

ResolveInit ==
    /\ \E k1 \in PartialFns(Names, LinkCaps), k2 \in PartialFns({<<"a">>}, LinkCaps) :
          grid = [kids |-> [d \in Dirs |-> IF d = "d1" THEN k1
                                           ELSE IF d = "d2" THEN k2 ELSE << >>],
                  made |-> {"d1", "d2", "f1"}, lost |-> {}, up |-> TRUE]
    /\ target = NoNode
    /\ source = NoNode
    /\ call = NoCall
    /\ result = NoResult
    /\ sent = << >>

\* The Directory the caller keeps: the one the call returned, if it returned one
Kept(r) == IF r.ok /\ r.val.type = "Directory" THEN r.val ELSE target

\* fs.Object(uri)
ResolveObject ==
    \E uri \in TopCaps :
        /\ call' = [NoCall EXCEPT !.op = "Object", !.uri = uri]
        /\ result' = FsObject(grid, uri, NoData, 1)
        /\ target' = Kept(result')
        /\ UNCHANGED <<grid, source, sent>>

\* fs.Object(uri, data) with the envelope of uri the caller fetched before
ResolveObjectData ==
    \E uri \in TopCaps :
        /\ call' = [NoCall EXCEPT !.op = "Object", !.uri = uri, !.data = Envelope(grid, uri)]
        /\ result' = FsObject(grid, uri, Envelope(grid, uri), 1)
        /\ target' = Kept(result')
        /\ UNCHANGED <<grid, source, sent>>

\* fs.Directory(uri)
ResolveDirectory ==
    \E uri \in TopCaps :
        /\ call' = [NoCall EXCEPT !.op = "Directory", !.uri = uri]
        /\ result' = FsDirectory(grid, uri, NoData, 1)
        /\ target' = Kept(result')
        /\ UNCHANGED <<grid, source, sent>>

\* fs.File(uri)
ResolveFile ==
    \E uri \in TopCaps :
        /\ call' = [NoCall EXCEPT !.op = "File", !.uri = uri]
        /\ result' = FsFile(grid, uri, NoData)
        /\ UNCHANGED <<grid, target, source, sent>>

\* The Directory node after a _get_data that raised: nothing is assigned when
\* the fetch or the tag test raises; when a child raises in the loop, the
\* fields are assigned and the children made before the failing one are in the
\* mapping, whichever the dict's order put first.
PartlyFilled(self, details, made, after) ==
    \E done \in SUBSET {n \in DOMAIN made : made[n].ok} :
        after = [self EXCEPT
            !.mutable = details.mutable,
            !.readcap = details.ro_uri,
            !.writable = details.rw_uri # NoCap,
            !.writecap = IF details.rw_uri # NoCap THEN details.rw_uri ELSE self.writecap,
            !.children = [n \in done |-> made[n].val]]

AfterFailedGetData(g, self, after) ==
    LET top == GetJson(g, self.uri)
    IN  IF top.ok /\ TagIn("dirnode", top.data)
        THEN PartlyFilled(self, top.data[2],
                          [n \in DOMAIN top.data[2].children |->
                              FsObject(g, ChildUri(top.data[2].children[n]),
                                       top.data[2].children[n], 2)],
                          after)
        ELSE after = self

\* target.refresh()
Refresh ==
    /\ target.type = "Directory"
    /\ call' = [NoCall EXCEPT !.op = "refresh", !.uri = target.uri, !.directory = target]
    /\ result' = DirectoryRefresh(grid, target)
    /\ IF result'.ok THEN target' = result'.val
       ELSE AfterFailedGetData(grid, target, target')
    /\ UNCHANGED <<grid, source, sent>>

\* An object's shares are lost or found again, the WAPI goes down or comes back
GridFault ==
    /\ \E lost \in SUBSET {"d2"}, up \in BOOLEAN :
          grid' = [grid EXCEPT !.lost = lost, !.up = up]
    /\ UNCHANGED <<target, source, call, result, sent>>

(***************************************************************************)
(* Filesystem.attach, Directory.create_directory, Directory.upload          *)
(***************************************************************************)
\* What a call did: its outcome, the requests it sent that write to the grid
\* (each with the status answered, 0 when no answer came), the grid afterwards
Out(res, reqs, g) == [res |-> res, sent |-> reqs, grid |-> g]

Logged(req, status) == [req EXCEPT !.status = status]

\* A broken test of the target: nothing is refused
DirectoryNeverRefuses(directory) == FALSE

\* if directory.writable == False: raise ObjectException
DirectoryRefuses(directory) == directory.writable = FALSE

\* A broken choice of the cap: a read-only object asked for as writable is
\* linked by its read cap
AttachCapDowngrading(obj, kw) ==
    IF kw = "true" /\ obj.writable = TRUE THEN [ok |-> TRUE, cap |-> obj.writecap]
    ELSE [ok |-> TRUE, cap |-> obj.readcap]

\* The cap to link (filecap), chosen from the writable keyword argument, which
\* is absent, True or False
AttachCap(obj, kw) ==
    IF kw # "absent"
    THEN IF kw = "true"
         THEN IF obj.writable = TRUE
              THEN [ok |-> TRUE, cap |-> obj.writecap]
              ELSE [ok |-> FALSE, cap |-> NoCap]
         ELSE [ok |-> TRUE, cap |-> obj.readcap]
    ELSE [ok |-> TRUE, cap |-> obj.readcap]

\* A broken link request: replace=true
LinkRequestReplacing(directory, name, filecap) ==
    [method |-> "PUT", what |-> "link", cap |-> directory.writecap, name |-> name,
     replace |-> TRUE, body |-> filecap, status |-> 0]

\* requests.put("%s/uri/%s/%s?t=uri&replace=false" % (url, directory.writecap,
\* filename), data=filecap)
LinkRequest(directory, name, filecap) ==
    [method |-> "PUT", what |-> "link", cap |-> directory.writecap, name |-> name,
     replace |-> FALSE, body |-> filecap, status |-> 0]

\* The WAPI's answer to a link request: the status and the grid afterwards.
\* The child is added under the name, unless the name is taken and replace is
\* false (409), the parent is not a directory's write cap (400) or is lost (410)
WapiLink(g, req) ==
    IF ~(req.cap.w /\ req.cap.o \in Dirs \cap g.made)
    THEN [reached |-> g.up, status |-> 400, grid |-> g]
    ELSE IF req.cap.o \in g.lost
    THEN [reached |-> g.up, status |-> 410, grid |-> g]
    ELSE IF req.name \in DOMAIN g.kids[req.cap.o] /\ ~req.replace
    THEN [reached |-> g.up, status |-> 409, grid |-> g]
    ELSE [reached |-> g.up, status |-> 200,
          grid |-> [g EXCEPT !.kids[req.cap.o] =
                       [n \in DOMAIN @ \cup {req.name} |->
                           IF n = req.name THEN req.body ELSE @[n]]]]

\* Filesystem.attach(obj, directory, filename, **kwargs); filename is None or
\* a string
FsAttach(g, obj, directory, fname, kw) ==
    IF DirectoryRefuses(directory)
    THEN Out(Raise("ObjectException", "directory is not writable", 0), << >>, g)
    ELSE IF ~fname.set
    \* re.sub on None
    THEN Out(Raise("TypeError", "expected string or buffer", 0), << >>, g)
    ELSE
    LET name == _sanitize_filename(fname.val)
        chosen == AttachCap(obj, kw)
    IN  IF ~chosen.ok
        THEN Out(Raise("ObjectException", "object is not writable", 0), << >>, g)
        ELSE IF directory.writecap = NoCap
        \* the attribute is set only with "rw_uri" in details
        THEN Out(Raise("AttributeError", "writecap", 0), << >>, g)
        ELSE
        LET req == LinkRequest(directory, name, chosen.cap)
            resp == WapiLink(g, req)
        IN  IF ~resp.reached
            THEN Out(Raise("ConnectionError", "requests.put", 0), <<req>>, g)
            ELSE IF resp.status = 200
            THEN Out(Return(name, 0), <<Logged(req, 200)>>, resp.grid)
            ELSE Out(Raise("ObjectException", "request failed", 0),
                     <<Logged(req, resp.status)>>, resp.grid)

\* The objects the grid has not made yet
FreshDirs(g) == Dirs \ g.made
FreshFiles(g) == Files \ g.made

MkdirRequest == [method |-> "POST", what |-> "mkdir", cap |-> NoCap, name |-> << >>,
                 replace |-> FALSE, body |-> NoCap, status |-> 0]
UploadRequest == [method |-> "PUT", what |-> "upload", cap |-> NoCap, name |-> << >>,
                  replace |-> FALSE, body |-> NoCap, status |-> 0]

\* Filesystem.create_directory(): POST /uri?t=mkdir makes directory d, whose
\* write cap is the response text, and Directory(result) resolves it
FsCreateDirectory(g, d) ==
    IF ~g.up THEN Out(Raise("ConnectionError", "requests.post", 0), <<MkdirRequest>>, g)
    ELSE Out(FsDirectory([g EXCEPT !.made = @ \cup {d}], RW(d), NoData, 1),
             <<Logged(MkdirRequest, 200)>>, [g EXCEPT !.made = @ \cup {d}])

\* A broken attach: the directory attached to is refreshed
DirectoryRefreshedAfterAttach(g, self) ==
    LET r == DirectoryInit(g, self.uri, NoData, 1)
    IN  IF r.ok THEN r.val ELSE self

\* The Directory attached to, after Filesystem.attach, create_directory or
\* upload: none assigns an attribute of it
DirectoryAfterAttach(g, self) == self

\* What a method returns that made a node (made) and attached it (att): the
\* node, or the exception attach raised
MadeAndAttached(made, att) ==
    Out(IF att.res.ok THEN made.res ELSE [att.res EXCEPT !.gets = made.res.gets],
        made.sent \o att.sent, att.grid)

\* new_dir.attach(self, self.filesystem._sanitize_filename(name), writable=True)
\* after new_dir = self.filesystem.create_directory() gave made
AttachNewDirectory(self, fname, made) ==
    IF ~made.res.ok THEN made
    ELSE IF ~fname.set
    THEN Out(Raise("TypeError", "expected string or buffer", made.res.gets),
             made.sent, made.grid)
    ELSE MadeAndAttached(made, FsAttach(made.grid, made.res.val, self,
                                        Set(_sanitize_filename(fname.val)), "true"))

\* Directory.create_directory(name) on self, the grid making directory d
DirCreateDirectory(g, self, fname, d) ==
    AttachNewDirectory(self, fname, FsCreateDirectory(g, d))

\* os.path.basename
RECURSIVE Basename(_)
Basename(path) ==
    IF path = << >> THEN << >>
    ELSE IF path[Len(path)] = "/" THEN << >>
    ELSE Append(Basename(SubSeq(path, 1, Len(path) - 1)), path[Len(path)])

\* What is handed to upload: a str (the path of a file that opens or does not),
\* a file object (whose name is a str or is not), or something else
FileDatas ==
    {[kind |-> "str", name |-> <<"/", "b">>, opens |-> TRUE, strname |-> TRUE],
     [kind |-> "str", name |-> <<"/", "b">>, opens |-> FALSE, strname |-> TRUE],
     [kind |-> "file", name |-> <<"/", "b">>, opens |-> TRUE, strname |-> TRUE],
     [kind |-> "file", name |-> << >>, opens |-> TRUE, strname |-> FALSE],
     [kind |-> "other", name |-> << >>, opens |-> TRUE, strname |-> FALSE]}

\* Filesystem.upload(filedata), the grid storing the bytes as file f
FsUpload(g, filedata, f) ==
    IF filedata.kind = "str" /\ ~filedata.opens
    THEN Out(Raise("UploadException", "not a valid file path", 0), << >>, g)
    ELSE IF filedata.kind = "other"
    THEN Out(Raise("UploadException", "not a valid file object or path", 0), << >>, g)
    ELSE IF ~g.up
    THEN Out(Raise("ConnectionError", "requests.put", 0), <<UploadRequest>>, g)
    ELSE LET g2 == [g EXCEPT !.made = @ \cup {f}]
         IN  Out(FsFile(g2, RO(f), NoData), <<Logged(UploadRequest, 200)>>, g2)

\* The filename Directory.upload settles on when none is given
UploadName(filedata, fname) ==
    IF fname.set THEN [ok |-> TRUE, exc |-> "", name |-> fname.val]
    ELSE IF filedata.kind = "str"
    THEN [ok |-> TRUE, exc |-> "", name |-> _sanitize_filename(Basename(filedata.name))]
    ELSE IF filedata.kind = "file"
    THEN IF filedata.strname
         THEN [ok |-> TRUE, exc |-> "", name |-> _sanitize_filename(filedata.name)]
         \* random and string are not imported
         ELSE [ok |-> FALSE, exc |-> "NameError", name |-> << >>]
    ELSE [ok |-> FALSE, exc |-> "UploadException", name |-> << >>]

\* new_file.attach(self, filename) after new_file = self.filesystem.upload(
\* filedata) gave up
AttachNewFile(self, name, up) ==
    IF ~up.res.ok THEN up
    ELSE MadeAndAttached(up, FsAttach(up.grid, up.res.val, self, Set(name), "absent"))

\* Directory.upload(filedata, filename) on self
DirUpload(g, self, filedata, fname, f) ==
    LET named == UploadName(filedata, fname)
    IN  IF ~named.ok THEN Out(Raise(named.exc, "filename", 0), << >>, g)
        ELSE AttachNewFile(self, named.name, FsUpload(g, filedata, f))

(***************************************************************************)
(* Spec: a caller that opens nodes, attaches, makes directories, uploads    *)
(* and refreshes                                                            *)
(***************************************************************************)
OpenCaps == {RW("d1"), RO("d2"), RW("f1"), RO("f1")}

RawNames == {<<"a">>, <<"/", "a">>, <<"b", ";">>}

\* The filename arguments: None or a string
FilenameArgs == {Unset} \cup {Set(n) : n \in RawNames}

\* Whether the WAPI is reached during a call
During(g, up) == [g EXCEPT !.up = up]

ClientInit ==
    /\ grid = [kids |-> [d \in Dirs |-> IF d \in {"d1", "d2"} THEN (<<"a">> :> RO("f1"))
                                        ELSE << >>],
               made |-> {"d1", "d2", "f1"}, lost |-> {}, up |-> TRUE]
    /\ target = NoNode
    /\ source = NoNode
    /\ call = NoCall
    /\ result = NoResult
    /\ sent = << >>

\* target = fs.Object(uri)
OpenTarget ==
    \E uri \in OpenCaps, up \in BOOLEAN :
        /\ call' = [NoCall EXCEPT !.op = "open", !.uri = uri]
        /\ result' = FsObject(During(grid, up), uri, NoData, 1)
        /\ result'.ok /\ result'.val.type = "Directory"
        /\ target' = result'.val
        /\ sent' = << >>
        /\ UNCHANGED <<grid, source>>

\* source = fs.Object(uri)
OpenSource ==
    \E uri \in OpenCaps, up \in BOOLEAN :
        /\ call' = [NoCall EXCEPT !.op = "open", !.uri = uri]
        /\ result' = FsObject(During(grid, up), uri, NoData, 1)
        /\ source' = IF result'.ok THEN result'.val ELSE source
        /\ sent' = << >>
        /\ UNCHANGED <<grid, target>>

\* The call's effect on what the caller sees
Done(out) ==
    /\ result' = out.res
    /\ sent' = out.sent
    /\ grid' = During(out.grid, TRUE)
    /\ target' = DirectoryAfterAttach(grid', target)
    /\ UNCHANGED source

\* source.attach(target, filename) and source.attach(target, filename,
\* writable=...)
Attach ==
    /\ source.type # "None" /\ target.type # "None"
    /\ \E fname \in FilenameArgs, kw \in {"absent", "true", "false"}, up \in BOOLEAN :
          /\ call' = [NoCall EXCEPT !.op = "attach", !.obj = source,
                                    !.directory = target, !.filename = fname,
                                    !.writable = kw]
          /\ Done(FsAttach(During(grid, up), source, target, fname, kw))

\* target.create_directory(name)
CreateDirectory ==
    /\ target.type # "None"
    /\ \E fname \in FilenameArgs, up \in BOOLEAN, d \in FreshDirs(grid) :
          /\ call' = [NoCall EXCEPT !.op = "create_directory", !.directory = target,
                                    !.filename = fname]
          /\ Done(DirCreateDirectory(During(grid, up), target, fname, d))

\* target.upload(filedata) and target.upload(filedata, filename)
Upload ==
    /\ target.type # "None"
    /\ \E filedata \in FileDatas, fname \in {Unset, Set(<<"a">>)}, up \in BOOLEAN,
          f \in FreshFiles(grid) :
          /\ call' = [NoCall EXCEPT !.op = "upload", !.directory = target,
                                    !.filename = fname, !.filedata = filedata.kind]
          /\ Done(DirUpload(During(grid, up), target, filedata, fname, f))

\* target.refresh()
RefreshTarget ==
    /\ target.type # "None"
    /\ \E up \in BOOLEAN :
          /\ call' = [NoCall EXCEPT !.op = "refresh", !.uri = target.uri,
                                    !.directory = target]
          /\ result' = DirectoryRefresh(During(grid, up), target)
          /\ IF result'.ok THEN target' = result'.val
             ELSE AfterFailedGetData(During(grid, up), target, target')
          /\ sent' = << >>
          /\ UNCHANGED <<grid, source>>

(***************************************************************************)
(* The specifications                                                       *)
(***************************************************************************)
IdleSanitize == filename = << >> /\ sanitized = Unset /\ resanitized = Unset
IdleProbe == wapi = [kind |-> "down", doc |-> "none", uptime |-> 0] /\ clock = 0
             /\ fs = NoFilesystem
IdleRead == body = << >> /\ request = NoRequest /\ readcall = NoRead
IdleClient ==
    /\ grid = [kids |-> [d \in Dirs |-> << >>], made |-> {}, lost |-> {}, up |-> TRUE]
    /\ target = NoNode /\ source = NoNode /\ call = NoCall /\ result = NoResult
    /\ sent = << >>

SanitizeSpecInit == SanitizeInit /\ IdleProbe /\ IdleRead /\ IdleClient
SanitizeNext ==
    \/ Sanitize /\ UNCHANGED <<probeVars, readVars, clientVars>>
    \/ SanitizeAgain /\ UNCHANGED <<probeVars, readVars, clientVars>>
SpecSanitize == SanitizeSpecInit /\ [][SanitizeNext]_vars

ProbeSpecInit == ProbeInit /\ IdleSanitize /\ IdleRead /\ IdleClient
ProbeNext ==
    \/ Construct /\ UNCHANGED <<sanitizeVars, readVars, clientVars>>
    \/ WapiChange /\ UNCHANGED <<sanitizeVars, readVars, clientVars>>
    \/ Tick /\ UNCHANGED <<sanitizeVars, readVars, clientVars>>
SpecProbe == ProbeSpecInit /\ [][ProbeNext]_vars

ReadSpecInit == ReadInit /\ IdleSanitize /\ IdleProbe /\ IdleClient
ReadNext ==
    \/ ReadLength /\ UNCHANGED <<sanitizeVars, probeVars, clientVars>>
    \/ ReadAll /\ UNCHANGED <<sanitizeVars, probeVars, clientVars>>
    \/ NewFile /\ UNCHANGED <<sanitizeVars, probeVars, clientVars>>
SpecRead == ReadSpecInit /\ [][ReadNext]_vars

ResolveSpecInit == ResolveInit /\ IdleSanitize /\ IdleProbe /\ IdleRead
ResolveNext ==
    \/ ResolveObject /\ UNCHANGED <<sanitizeVars, probeVars, readVars>>
    \/ ResolveObjectData /\ UNCHANGED <<sanitizeVars, probeVars, readVars>>
    \/ ResolveDirectory /\ UNCHANGED <<sanitizeVars, probeVars, readVars>>
    \/ ResolveFile /\ UNCHANGED <<sanitizeVars, probeVars, readVars>>
    \/ Refresh /\ UNCHANGED <<sanitizeVars, probeVars, readVars>>
    \/ GridFault /\ UNCHANGED <<sanitizeVars, probeVars, readVars>>
SpecResolve == ResolveSpecInit /\ [][ResolveNext]_vars

ClientSpecInit == ClientInit /\ IdleSanitize /\ IdleProbe /\ IdleRead
Next ==
    \/ OpenTarget /\ UNCHANGED <<sanitizeVars, probeVars, readVars>>
    \/ OpenSource /\ UNCHANGED <<sanitizeVars, probeVars, readVars>>
    \/ Attach /\ UNCHANGED <<sanitizeVars, probeVars, readVars>>
    \/ CreateDirectory /\ UNCHANGED <<sanitizeVars, probeVars, readVars>>
    \/ Upload /\ UNCHANGED <<sanitizeVars, probeVars, readVars>>
    \/ RefreshTarget /\ UNCHANGED <<sanitizeVars, probeVars, readVars>>
Spec == ClientSpecInit /\ [][Next]_vars

(***************************************************************************)
(* Claims                                                                   *)
(***************************************************************************)
IsSafeChar(c) == c \in SafeChars

\* C9: the sanitized name holds only characters of the safe set, it is the
\* name's safe characters in their original order, and sanitizing it again
\* gives it back (sanitize(sanitize(x)) = sanitize(x)).
C9_SanitizeSafeFixedPoint ==
    /\ sanitized.set =>
          /\ \A i \in 1..Len(sanitized.val) : sanitized.val[i] \in SafeChars
          /\ sanitized.val = SelectSeq(filename, IsSafeChar)
    /\ resanitized.set => resanitized.val = sanitized.val

\* A name with safe characters between two runs of unsafe ones was sanitized
\* twice
C9_Witness ==
    /\ resanitized.set
    /\ Len(filename) = 3
    /\ Unsafe(filename[1]) /\ ~Unsafe(filename[2]) /\ Unsafe(filename[3])
    /\ sanitized.val = <<filename[2]>>

\* C7: Filesystem(url) raises FilesystemException and makes no object when the
\* probe fails in transport, is not JSON, or is JSON without the uptime field;
\* it makes the object only when the uptime field is there.
C7_ProbeFailsTyped ==
    /\ fs.saw \in {"down", "notjson", "object_without_stats", "stats_without_uptime",
                   "array"}
          => ~fs.made /\ fs.exc = "FilesystemException"
    /\ fs.made => fs.saw = "stats"

\* C10: read(length) returns at most length bytes from the stream position,
\* read() returns all that remains, and a read of an exhausted stream returns
\* nothing.
C10_ReadFromPosition ==
    readcall.made =>
        /\ readcall.length >= 0 =>
              readcall.got = SubSeq(readcall.remaining, 1,
                                    Min(readcall.length, Len(readcall.remaining)))
        /\ readcall.length < 0 => readcall.got = readcall.remaining
        /\ readcall.exhausted => readcall.got = << >>

\* C4: Object given an envelope tagged dirnode returns a Directory, given one
\* tagged filenode returns a File, given one tagged unknown raises
\* ObjectException.
C4_TagDecidesType ==
    (call.op = "Object" /\ call.data # NoData) =>
        /\ TagIn("dirnode", call.data) => result.ok /\ result.val.type = "Directory"
        /\ TagIn("filenode", call.data) => result.ok /\ result.val.type = "File"
        /\ TagIn("unknown", call.data) => ~result.ok /\ result.exc = "ObjectException"

\* C5: building or refreshing a Directory from the directory's envelope issues
\* no envelope GET for a child: at most the one GET for the directory itself.
C5_NoFetchPerChild ==
    (result.ok /\ result.val.type = "Directory"
        /\ (call.op = "refresh" \/ call.data # NoData))
    => result.gets <= 1

\* C6: resolving a directory fills the children of no child directory, and it
\* ends without exhausting the stack on every grid.
C6_OneLevel ==
    /\ (result.ok /\ result.val.type = "Directory") =>
          \A n \in DOMAIN result.val.children :
              result.val.children[n].type = "Directory"
                  => DOMAIN result.val.children[n].children = {}
    /\ result.exc # "RuntimeError"

\* C1: attach into a Directory that holds no write cap raises the error of a
\* directory that is not writable, sends no request that writes to the grid,
\* and leaves every directory listing of the grid as it was.
C1_ReadOnlyTargetRefuses ==
    [][(call'.op = "attach" /\ call'.directory.type = "Directory"
            /\ ~call'.directory.writable)
        => /\ ~result'.ok
           /\ result'.exc = "ObjectException"
           /\ result'.msg = "directory is not writable"
           /\ sent' = << >>
           /\ grid'.kids = grid.kids]_vars

\* A write-capable File was attached, as writable, to a read-only Directory
\* whose listing is not empty
C1_Witness ==
    /\ call.op = "attach"
    /\ call.directory.type = "Directory" /\ ~call.directory.writable
    /\ call.obj.type = "File" /\ call.obj.writable
    /\ call.writable = "true" /\ call.filename.set
    /\ DOMAIN grid.kids[call.directory.uri.o] # {}
    /\ ~result.ok

\* C2: attach into a writable Directory links the object's write cap exactly
\* when writable=True was asked and the object has one, its read cap when
\* writable was not asked; writable=True on an object without a write cap
\* raises (ObjectException, when the filename is a string) and sends no link
\* request.
C2_LinkedCap ==
    (call.op = "attach" /\ call.directory.writable) =>
        /\ \A i \in DOMAIN sent :
              /\ sent[i].what = "link"
              /\ sent[i].body = IF call.writable = "true" THEN call.obj.writecap
                                ELSE call.obj.readcap
              /\ sent[i].body = call.obj.writecap
                    <=> (call.writable = "true" /\ call.obj.writable)
        /\ (call.writable = "true" /\ ~call.obj.writable) =>
              /\ ~result.ok
              /\ sent = << >>
              /\ call.filename.set => /\ result.exc = "ObjectException"
                                      /\ result.msg = "object is not writable"
        /\ (call.filename.set /\ ~(call.writable = "true" /\ ~call.obj.writable))
              => Len(sent) = 1

\* A writable object was linked by its write cap
C2_Witness ==
    /\ call.op = "attach"
    /\ call.directory.writable
    /\ call.writable = "true" /\ call.obj.writable
    /\ result.ok
    /\ Len(sent) = 1 /\ sent[1].body = call.obj.writecap

\* C3: every link request carries replace=false; attach returns the name only
\* when the grid answered 200; and attach under a name the target directory
\* already lists raises (ObjectException when the grid answered) and leaves the
\* listing of the target as it was.
C3_NoOverwrite ==
    [][/\ \A i \in DOMAIN sent' : sent'[i].what = "link" => sent'[i].replace = FALSE
       /\ (call'.op = "attach" /\ result'.ok) =>
             /\ Len(sent') = 1 /\ sent'[1].status = 200
             /\ result'.val = _sanitize_filename(call'.filename.val)
       /\ (call'.op = "attach" /\ call'.filename.set
              /\ _sanitize_filename(call'.filename.val)
                    \in DOMAIN grid.kids[call'.directory.uri.o])
          => /\ ~result'.ok
             /\ (sent' # << >> /\ sent'[1].status # 0)
                   => result'.exc = "ObjectException" /\ result'.msg = "request failed"
             /\ grid'.kids[call'.directory.uri.o] = grid.kids[call'.directory.uri.o]
      ]_vars

\* The grid refused a link under a name the directory lists
C3_Witness ==
    /\ call.op = "attach"
    /\ ~result.ok /\ result.msg = "request failed"
    /\ Len(sent) = 1 /\ sent[1].status = 409
    /\ sent[1].name \in DOMAIN grid.kids[sent[1].cap.o]

\* C8: create_directory and upload leave the children mapping of the Directory
\* they are called on as it was, and the mapping of the Directory the caller
\* holds changes only in refresh() or when the caller opens another node.
C8_ChildrenOnlyByRefresh ==
    [][/\ call'.op \in {"create_directory", "upload"} => target' = target
       /\ target'.children # target.children => call'.op \in {"refresh", "open"}
      ]_vars

\* create_directory linked a new directory into the grid's listing of the
\* target, and the target's children mapping does not have it
C8_Witness ==
    /\ call.op = "create_directory"
    /\ result.ok
    /\ sent[Len(sent)].status = 200 /\ sent[Len(sent)].what = "link"
    /\ sent[Len(sent)].name \in DOMAIN grid.kids[target.uri.o]
    /\ sent[Len(sent)].name \notin DOMAIN target.children
=============================================================================
